---- MODULE Spec2Model ----
(***************************************************************************)
(* Model of cmd/sync.py, the Proxmox certificate sync entrypoint: the      *)
(* certificate validator, the remote task protocol client and the sync     *)
(* orchestrator main().  One run of the process is one behaviour.          *)
(***************************************************************************)
EXTENDS Integers, Sequences, FiniteSets, TLC

(***************************************************************************)
(* Bounds of the model.                                                    *)
(***************************************************************************)
\* largest MAX_RETRIES value explored (max_retries ranges over 0..MaxRetriesBound)
MaxRetriesBound == 2
\* largest number of entries of services_to_restart explored
MaxServices == 2
\* cap on the status fetches of one _poll_task call
MaxFetches == 3
\* an HTTP exchange takes 0..MaxLatency clock ticks
MaxLatency == 2
\* clock ticks per day, the unit of not_valid_after and now
TicksPerDay == 2

(***************************************************************************)
(* Program constants.                                                      *)
(***************************************************************************)
DEFAULT_RETRY_DELAY == 5

VARIABLES
    pc,          \* position of main(): see Positions
    exit_code,   \* return value of main(); -1 while the process runs
    config,      \* the Config built by Config.from_env
    validation,  \* outcome of the validation block of main()
    validations, \* how many times _validate_certificate_pair was entered
    session,     \* "none" | "built" (_build_session)
    attempt,     \* main()'s attempt counter (counts failed attempts)
    task_id,     \* value returned by _upload_certificate
    svc,         \* index into services_to_restart inside _restart_services
    clock,       \* time.time() relative to the start of _poll_task
    inflight,    \* HTTP exchanges sent and not yet answered
    remoteTask,  \* the node's task of the latest accepted upload
    uploads,     \* upload requests issued in this run
    trace,       \* requests of the current attempt, each with its response
    pollSleeps,  \* time.sleep durations of _poll_task in the current attempt
    sleeps,      \* time.sleep durations of main()'s except block
    lastError,   \* stage that raised in the latest failed attempt
    exc,         \* the exception main()'s except block caught last
    material     \* the validator's inputs, under ValidatorSpec only

vars == <<pc, exit_code, config, validation, validations, session, attempt,
          task_id, svc, clock, inflight, remoteTask, uploads, trace, pollSleeps,
          sleeps, lastError, exc, material>>

Positions == {"start", "validate", "dry_run", "loop", "upload", "upload_wait",
              "poll", "status_wait", "restart", "restart_wait", "verify",
              "verify_wait", "done"}

(***************************************************************************)
(* Certificate Validator.  Names are sequences of one-character strings.   *)
(***************************************************************************)
\* str.lower() on the characters the model uses
LowerChar(c) ==
    CASE c = "A" -> "a"
      [] c = "B" -> "b"
      [] c = "E" -> "e"
      [] OTHER -> c

Lower(s) == [i \in 1..Len(s) |-> LowerChar(s[i])]

\* fnmatch.fnmatch(name, pat): "*" matches any run of characters (dots
\* included), "?" any one character, anything else itself.
RECURSIVE fnmatch(_, _)
fnmatch(name, pat) ==
    IF pat = <<>> THEN name = <<>>
    ELSE IF Head(pat) = "*"
         THEN fnmatch(name, Tail(pat))
              \/ (name # <<>> /\ fnmatch(Tail(name), pat))
         ELSE /\ name # <<>>
              /\ (Head(pat) = "?" \/ Head(pat) = Head(name))
              /\ fnmatch(Tail(name), Tail(pat))

\* _certificate_covers_hosts: SAN DNS names then Subject CNs, lower-cased;
\* every expected host must match one of them.
certificate_covers_hosts(certificate, expected_hosts) ==
    LET names      == certificate.san \o certificate.cn
        normalized == [i \in 1..Len(names) |-> Lower(names[i])]
    IN  \A h \in 1..Len(expected_hosts) :
            \E n \in 1..Len(normalized) :
                fnmatch(Lower(expected_hosts[h]), normalized[n])

KeyFamilies == {"RSA", "EC", "DSA", "Ed25519"}

\* _public_keys_match: only RSA/RSA, EC/EC and DSA/DSA pairs are compared
public_keys_match(cert_key, private_key) ==
    IF cert_key.family = "RSA" /\ private_key.family = "RSA"
    THEN cert_key.numbers = private_key.numbers
    ELSE IF cert_key.family = "EC" /\ private_key.family = "EC"
    THEN cert_key.numbers = private_key.numbers
    ELSE IF cert_key.family = "DSA" /\ private_key.family = "DSA"
    THEN cert_key.numbers = private_key.numbers
    ELSE FALSE

\* Variant of validate_certificate_pair: remaining <= timedelta(days=...)
validate_certificate_pair_inclusive(cert_pem, key_pem, expected_hosts, min_valid_days, now) ==
    IF ~cert_pem.pem_ok \/ ~key_pem.pem_ok THEN "MalformedInput"
    ELSE IF ~public_keys_match([family |-> cert_pem.family, numbers |-> cert_pem.numbers],
                               [family |-> key_pem.family, numbers |-> key_pem.numbers])
    THEN "KeyMismatch"
    ELSE IF cert_pem.not_valid_after - now <= min_valid_days * TicksPerDay
    THEN "ExpiringSoon"
    ELSE IF expected_hosts # <<>> /\ ~certificate_covers_hosts(cert_pem, expected_hosts)
    THEN "HostnameNotCovered"
    ELSE "ok"

\* _validate_certificate_pair: the exception it raises, "ok" when none.
\* "MalformedInput" is the ValueError of the cryptography loaders; the other
\* three are ConfigError.
validate_certificate_pair(cert_pem, key_pem, expected_hosts, min_valid_days, now) ==
    IF ~cert_pem.pem_ok \/ ~key_pem.pem_ok THEN "MalformedInput"
    ELSE IF ~public_keys_match([family |-> cert_pem.family, numbers |-> cert_pem.numbers],
                               [family |-> key_pem.family, numbers |-> key_pem.numbers])
    THEN "KeyMismatch"
    ELSE IF cert_pem.not_valid_after - now < min_valid_days * TicksPerDay
    THEN "ExpiringSoon"
    ELSE IF expected_hosts # <<>> /\ ~certificate_covers_hosts(cert_pem, expected_hosts)
    THEN "HostnameNotCovered"
    ELSE "ok"

\* _read_file raises ConfigError when the file does not exist
read_file_raises(file) == ~file.present

\* The try block of main(): read the files, then validate.
validation_block(cert_file, key_file, expected_hosts, min_valid_days, now) ==
    IF read_file_raises(cert_file) \/ read_file_raises(key_file) THEN "MissingFile"
    ELSE validate_certificate_pair(cert_file, key_file, expected_hosts,
                                   min_valid_days, now)

\* Exceptions that are ConfigError (except ConfigError -> return 3); any
\* other exception of the block returns 4.
ConfigErrorReasons == {"MissingFile", "KeyMismatch", "ExpiringSoon", "HostnameNotCovered"}

ValidationFailures == ConfigErrorReasons \cup {"MalformedInput"}

validation_exit(reason) == IF reason \in ConfigErrorReasons THEN 3 ELSE 4

(***************************************************************************)
(* Inputs of a run: the files on disk and the environment.                 *)
(***************************************************************************)
HostA    == <<"a", ".", "e">>
HostAB   == <<"a", ".", "b", ".", "e">>
HostApex == <<"e">>
Wildcard == <<"*", ".", "e">>

\* datetime.now(timezone.utc) at validation, in ticks
NowChoices == {0, 1}

MinValidityChoices == {1}

CertFiles ==
    [present : BOOLEAN, pem_ok : BOOLEAN, family : {"RSA", "EC"}, numbers : {1},
     not_valid_after : {TicksPerDay - 1, TicksPerDay, TicksPerDay + 1},
     san : {<<Wildcard>>}, cn : {<<>>}]

KeyFiles ==
    [present : BOOLEAN, pem_ok : BOOLEAN, family : {"RSA", "EC"}, numbers : {1, 2}]

ExpectedHostChoices == {<<>>, <<HostA>>, <<HostApex>>}

RetryDelayChoices == {0, DEFAULT_RETRY_DELAY}

PollIntervalChoices == {0, 1}

\* POLL_TIMEOUT_SECONDS: none, and room for MaxFetches fetches a tick apart
PollTimeoutChoices == {0, MaxFetches}

Configs ==
    [dry_run : BOOLEAN, poll_task : BOOLEAN,
     max_retries : 0..MaxRetriesBound,
     retry_delay_seconds : RetryDelayChoices,
     services_to_restart : 1..MaxServices,
     poll_interval_seconds : PollIntervalChoices,
     poll_timeout_seconds : PollTimeoutChoices,
     expected_hostnames : ExpectedHostChoices,
     min_validity_days : MinValidityChoices]

(***************************************************************************)
(* Sync Orchestrator: main().                                              *)
(***************************************************************************)
\* Exceptions, as main()'s except block sees them: the class and str(exc),
\* the message cut into the pieces its f-string is built from.
NoException == [type |-> "none", msg |-> <<>>]

RuntimeError(message) == [type |-> "RuntimeError", msg |-> message]

\* requests.Timeout, requests.ConnectionError raised by session.post/get
RequestError == [type |-> "RequestException", msg |-> <<"request failed">>]

\* response.json() on a body that is not JSON, .get on a body that is no dict
BodyError == [type |-> "ValueError", msg |-> <<"unexpected response body">>]

\* response.status_code of a response kind
status_code(r) == IF r = "http_error" THEN 500 ELSE 200

\* data.get("exitstatus") of a task status response
exitstatus(r) ==
    CASE r = "stopped_ok"   -> "OK"
      [] r = "stopped_fail" -> "ERROR"
      [] OTHER              -> "None"

UploadFailedError(r) ==
    RuntimeError(<<"Certificate upload failed: HTTP ", ToString(status_code(r))>>)

StatusFetchError(r) ==
    RuntimeError(<<"Task status fetch failed: HTTP ", ToString(status_code(r))>>)

\* Variant of TaskFailedError: the same message as the timeout
TaskFailedErrorAsTimeout(status) ==
    RuntimeError(<<"Timed out waiting for certificate upload task to complete">>)

TaskFailedError(status) ==
    RuntimeError(<<"Certificate upload task failed: ", status>>)

TimedOutError ==
    RuntimeError(<<"Timed out waiting for certificate upload task to complete">>)

RestartFailedError(service, r) ==
    RuntimeError(<<"Failed to restart service ", ToString(service), ": HTTP ",
                   ToString(status_code(r))>>)

\* what a call raises for a response kind that is not an HTTP status
transport_error(r) == IF r = "exception" THEN RequestError ELSE BodyError

\* no certificate material is held in the state of a run of main()
NoMaterial == [cert |-> "unread", key |-> "unread"]

\* a request on the wire; resp is "pending" until the call returns or raises
Req(kind, service) == [req |-> kind, svc |-> service, resp |-> "pending"]

Answered(tr, r) == [tr EXCEPT ![Len(tr)].resp = r]

\* the responses of the task status fetches of the current attempt
StatusSeen(tr) ==
    LET st == SelectSeq(tr, LAMBDA e : e.req = "status" /\ e.resp # "pending")
    IN  [i \in 1..Len(st) |-> st[i].resp]

StatusFetches(tr) == Len(SelectSeq(tr, LAMBDA e : e.req = "status"))

Init ==
    /\ pc = "start"
    /\ exit_code = -1
    /\ config \in Configs
    /\ validation = "pending"
    /\ validations = 0
    /\ session = "none"
    /\ attempt = 0
    /\ task_id = "None"
    /\ svc = 0
    /\ clock = 0
    /\ inflight = 0
    /\ remoteTask = "none"
    /\ uploads = 0
    /\ trace = <<>>
    /\ pollSleeps = <<>>
    /\ sleeps = <<>>
    /\ lastError = "none"
    /\ exc = NoException
    /\ material = NoMaterial

\* return <code> from main()
Return(code) ==
    /\ pc' = "done"
    /\ exit_code' = code

\* Config.from_env(): a ConfigError returns 2
LoadConfig ==
    /\ pc = "start"
    /\ \E raises \in BOOLEAN :
          IF raises THEN Return(2)
          ELSE pc' = "validate" /\ exit_code' = exit_code
    /\ UNCHANGED <<config, validation, validations, session, attempt, task_id,
                   svc, clock, inflight, remoteTask, uploads, trace,
                   pollSleeps, sleeps, lastError, exc, material>>

\* Variant of ValidateOutcome: the failure is recorded and the run goes on
ValidateOutcomeIgnored(reason) ==
    /\ validation' = reason
    /\ pc' = "dry_run"
    /\ exit_code' = exit_code

\* The validation try block: ConfigError returns 3, any other exception 4.
ValidateOutcome(reason) ==
    /\ validation' = reason
    /\ IF reason = "ok"
       THEN pc' = "dry_run" /\ exit_code' = exit_code
       ELSE Return(validation_exit(reason))

Validate ==
    /\ pc = "validate"
    /\ \E cert_file \in CertFiles, key_file \in KeyFiles, now \in NowChoices :
          ValidateOutcome(validation_block(cert_file, key_file,
                                           config.expected_hostnames,
                                           config.min_validity_days, now))
    /\ validations' = validations + 1
    /\ UNCHANGED <<config, session, attempt, task_id, svc, clock, inflight,
                   remoteTask, uploads, trace, pollSleeps, sleeps, lastError,
                   exc, material>>

\* Variant of DryRunBranch: the dry_run flag is not consulted
DryRunBranchIgnored(dry_run) ==
    pc' = "loop" /\ exit_code' = exit_code /\ session' = "built"

\* if config.dry_run: return 0; else build the session and set attempt = 0
DryRunBranch(dry_run) ==
    IF dry_run
    THEN Return(0) /\ session' = session
    ELSE pc' = "loop" /\ exit_code' = exit_code /\ session' = "built"

DryRunCheck ==
    /\ pc = "dry_run"
    /\ DryRunBranch(config.dry_run)
    /\ attempt' = 0
    /\ UNCHANGED <<config, validation, validations, task_id, svc, clock,
                   inflight, remoteTask, uploads, trace, pollSleeps, sleeps,
                   lastError, exc, material>>

\* while attempt <= config.max_retries: ... ; return 1
LoopHead ==
    /\ pc = "loop"
    /\ IF attempt <= config.max_retries
       THEN pc' = "upload" /\ exit_code' = exit_code
       ELSE Return(1)
    /\ UNCHANGED <<config, validation, validations, session, attempt, task_id,
                   svc, clock, inflight, remoteTask, uploads, trace,
                   pollSleeps, sleeps, lastError, exc, material>>

\* Variant of ExceptHandler: gives up one attempt early (>= for >)
ExceptHandlerOffByOne(stage) ==
    /\ attempt' = attempt + 1
    /\ lastError' = stage
    /\ IF attempt + 1 >= config.max_retries
       THEN Return(1) /\ sleeps' = sleeps
       ELSE /\ sleeps' = Append(sleeps, config.retry_delay_seconds * (attempt + 1))
            /\ pc' = "loop"
            /\ exit_code' = exit_code

\* Variant of ExceptHandler: sleeps retry_delay_seconds, not multiplied
ExceptHandlerFlatDelay(stage) ==
    /\ attempt' = attempt + 1
    /\ lastError' = stage
    /\ IF attempt + 1 > config.max_retries
       THEN Return(1) /\ sleeps' = sleeps
       ELSE /\ sleeps' = Append(sleeps, config.retry_delay_seconds)
            /\ pc' = "loop"
            /\ exit_code' = exit_code

\* Variant of ExceptHandler: a failed restart is retried at the restart stage
ExceptHandlerResume(stage) ==
    /\ attempt' = attempt + 1
    /\ lastError' = stage
    /\ IF attempt + 1 > config.max_retries
       THEN Return(1) /\ sleeps' = sleeps
       ELSE /\ sleeps' = Append(sleeps, config.retry_delay_seconds * (attempt + 1))
            /\ pc' = IF stage = "restart" THEN "restart" ELSE "loop"
            /\ exit_code' = exit_code

\* except Exception: attempt += 1; break when attempt > max_retries (then
\* return 1), else time.sleep(retry_delay_seconds * attempt) and loop.
ExceptHandler(stage) ==
    /\ attempt' = attempt + 1
    /\ lastError' = stage
    /\ IF attempt + 1 > config.max_retries
       THEN Return(1) /\ sleeps' = sleeps
       ELSE /\ sleeps' = Append(sleeps, config.retry_delay_seconds * (attempt + 1))
            /\ pc' = "loop"
            /\ exit_code' = exit_code

\* The try body went on without raising
NoExcept == UNCHANGED <<attempt, lastError, sleeps, exc>>

Goto(position) == pc' = position /\ exit_code' = exit_code

(***************************************************************************)
(* Remote Task Protocol Client.  An HTTP exchange is two steps: the        *)
(* request is sent, then session.post/get returns or raises.               *)
(***************************************************************************)
\* what session.post/get can come back with
Raised     == {"exception"}              \* timeout, connection error
HttpError  == {"http_error"}             \* status_code >= 400
BadBody    == {"bad_body"}               \* response.json() or .get raises

UploadResponses  == Raised \cup HttpError \cup BadBody \cup {"task", "empty", "null"}
StatusResponses  == Raised \cup HttpError \cup BadBody
                    \cup {"running", "unknown", "stopped_ok", "stopped_fail"}
RestartResponses == Raised \cup HttpError \cup {"ok"}
VerifyResponses  == Raised \cup HttpError \cup BadBody \cup {"ok"}

\* session.post / session.get is entered: the request goes out
HttpSend(kind, service) ==
    /\ inflight' = inflight + 1
    /\ trace' = Append(trace, Req(kind, service))

\* Variant of HttpReturn: the call returns while the exchange stays open
HttpReturnNotAwaited(r) ==
    /\ inflight' = inflight
    /\ trace' = Answered(trace, r)

\* session.post / session.get blocks until the response or an exception
HttpReturn(r) ==
    /\ inflight' = inflight - 1
    /\ trace' = Answered(trace, r)

\* Variant of upload_task_id: payload["data"] is taken whatever its type
upload_task_id_untyped(r) ==
    CASE r = "empty" -> ""
      [] OTHER       -> "UPID"

\* _upload_certificate: task_id is payload["data"] when that is a str, else None
upload_task_id(r) ==
    CASE r = "task"  -> "UPID"
      [] r = "empty" -> ""
      [] OTHER       -> "None"    \* "null": data is null or not a str

\* Variant of should_poll: the poll_task flag is read inverted
should_poll_inverted(tid, poll_task) == tid \notin {"None", ""} /\ ~poll_task

\* if task_id and config.poll_task
should_poll(tid, poll_task) == tid \notin {"None", ""} /\ poll_task

\* session.post(url, data=data, timeout=30) of _upload_certificate, the first
\* statement of the try body of a loop iteration
UploadSend ==
    /\ pc = "upload"
    /\ Goto("upload_wait")
    /\ inflight' = inflight + 1
    /\ trace' = <<Req("upload", 0)>>
    /\ uploads' = uploads + 1
    /\ pollSleeps' = <<>>
    /\ NoExcept
    /\ UNCHANGED <<config, validation, validations, session, task_id, svc,
                   clock, remoteTask, material>>

\* the rest of _upload_certificate and the branch of main() after it
UploadOutcome(r) ==
    IF r \in Raised \cup HttpError \cup BadBody
    THEN /\ ExceptHandler("upload")
         /\ exc' = IF r \in HttpError THEN UploadFailedError(r) ELSE transport_error(r)
         /\ UNCHANGED <<task_id, svc, remoteTask>>
    ELSE /\ NoExcept
         /\ task_id' = upload_task_id(r)
         /\ remoteTask' = IF r = "task" THEN "running" ELSE remoteTask
         /\ IF should_poll(upload_task_id(r), config.poll_task)
            THEN Goto("poll") /\ svc' = svc
            ELSE Goto("restart") /\ svc' = 1

UploadRecv ==
    /\ pc = "upload_wait"
    /\ \E r \in UploadResponses : HttpReturn(r) /\ UploadOutcome(r)
    /\ clock' = 0
    /\ UNCHANGED <<config, validation, validations, session, uploads, pollSleeps,
                   material>>

\* Variant of PollLoop: the deadline itself still starts a fetch (<= for <)
PollLoopInclusive ==
    /\ pc = "poll"
    /\ IF clock <= config.poll_timeout_seconds
       THEN /\ StatusFetches(trace) < MaxFetches
            /\ Goto("status_wait")
            /\ HttpSend("status", 0)
            /\ clock' = clock
            /\ NoExcept
       ELSE /\ ExceptHandler("poll_timeout")
            /\ exc' = TimedOutError
            /\ clock' = 0
            /\ UNCHANGED <<inflight, trace>>
    /\ UNCHANGED <<config, validation, validations, session, task_id, svc,
                   remoteTask, uploads, pollSleeps, material>>

\* Variant of PollLoop: while True, the deadline is never looked at
PollLoopNoDeadline ==
    /\ pc = "poll"
    /\ StatusFetches(trace) < MaxFetches
    /\ Goto("status_wait")
    /\ HttpSend("status", 0)
    /\ clock' = clock
    /\ NoExcept
    /\ UNCHANGED <<config, validation, validations, session, task_id, svc,
                   remoteTask, uploads, pollSleeps, material>>

\* while time.time() < deadline: session.get(url, timeout=15) ...
\* raise RuntimeError("Timed out ...")
PollLoop ==
    /\ pc = "poll"
    /\ IF clock < config.poll_timeout_seconds
       THEN /\ StatusFetches(trace) < MaxFetches
            /\ Goto("status_wait")
            /\ HttpSend("status", 0)
            /\ clock' = clock
            /\ NoExcept
       ELSE /\ ExceptHandler("poll_timeout")
            /\ exc' = TimedOutError
            /\ clock' = 0
            /\ UNCHANGED <<inflight, trace>>
    /\ UNCHANGED <<config, validation, validations, session, task_id, svc,
                   remoteTask, uploads, pollSleeps, material>>

\* Variant of StatusOutcome: time.sleep comes before the status is looked at
StatusOutcomeSleepFirst(r, latency) ==
    IF r \in Raised \cup HttpError \cup BadBody
    THEN /\ ExceptHandler("poll")
         /\ exc' = IF r \in HttpError THEN StatusFetchError(r) ELSE transport_error(r)
         /\ clock' = 0
         /\ UNCHANGED <<svc, remoteTask, pollSleeps>>
    ELSE /\ pollSleeps' = Append(pollSleeps, config.poll_interval_seconds)
         /\ IF r = "stopped_ok"
            THEN /\ NoExcept
                 /\ Goto("restart")
                 /\ svc' = 1
                 /\ clock' = 0
                 /\ remoteTask' = "stopped"
            ELSE IF r = "stopped_fail"
            THEN /\ ExceptHandler("task_failed")
                 /\ exc' = TaskFailedError(exitstatus(r))
                 /\ clock' = 0
                 /\ remoteTask' = "stopped"
                 /\ svc' = svc
            ELSE /\ NoExcept
                 /\ Goto("poll")
                 /\ clock' = clock + latency + config.poll_interval_seconds
                 /\ UNCHANGED <<svc, remoteTask>>

\* Variant of StatusOutcome: a status other than "running" ends the poll
StatusOutcomeUnknownFails(r, latency) ==
    IF r \in Raised \cup HttpError \cup BadBody
    THEN /\ ExceptHandler("poll")
         /\ exc' = IF r \in HttpError THEN StatusFetchError(r) ELSE transport_error(r)
         /\ clock' = 0
         /\ UNCHANGED <<svc, remoteTask, pollSleeps>>
    ELSE IF r = "stopped_ok"
    THEN /\ NoExcept
         /\ Goto("restart")
         /\ svc' = 1
         /\ clock' = 0
         /\ remoteTask' = "stopped"
         /\ pollSleeps' = pollSleeps
    ELSE IF r \in {"stopped_fail", "unknown"}
    THEN /\ ExceptHandler("task_failed")
         /\ exc' = TaskFailedError(exitstatus(r))
         /\ clock' = 0
         /\ remoteTask' = IF r = "unknown" THEN remoteTask ELSE "stopped"
         /\ UNCHANGED <<svc, pollSleeps>>
    ELSE /\ NoExcept
         /\ Goto("poll")
         /\ pollSleeps' = Append(pollSleeps, config.poll_interval_seconds)
         /\ clock' = clock + latency + config.poll_interval_seconds
         /\ UNCHANGED <<svc, remoteTask>>

\* the body of the while loop of _poll_task after session.get returned
StatusOutcome(r, latency) ==
    IF r \in Raised \cup HttpError \cup BadBody
    THEN /\ ExceptHandler("poll")
         /\ exc' = IF r \in HttpError THEN StatusFetchError(r) ELSE transport_error(r)
         /\ clock' = 0
         /\ UNCHANGED <<svc, remoteTask, pollSleeps>>
    ELSE IF r = "stopped_ok"
    THEN /\ NoExcept
         /\ Goto("restart")
         /\ svc' = 1
         /\ clock' = 0
         /\ remoteTask' = "stopped"
         /\ pollSleeps' = pollSleeps
    ELSE IF r = "stopped_fail"
    THEN /\ ExceptHandler("task_failed")
         /\ exc' = TaskFailedError(exitstatus(r))
         /\ clock' = 0
         /\ remoteTask' = "stopped"
         /\ UNCHANGED <<svc, pollSleeps>>
    ELSE /\ NoExcept
         /\ Goto("poll")
         /\ pollSleeps' = Append(pollSleeps, config.poll_interval_seconds)
         /\ clock' = clock + latency + config.poll_interval_seconds
         /\ UNCHANGED <<svc, remoteTask>>

StatusRecv ==
    /\ pc = "status_wait"
    /\ \E r \in StatusResponses, latency \in 0..MaxLatency :
          HttpReturn(r) /\ StatusOutcome(r, latency)
    /\ UNCHANGED <<config, validation, validations, session, task_id, uploads,
                   material>>

\* for service in config.services_to_restart: session.post(url, timeout=15)
RestartSend ==
    /\ pc = "restart"
    /\ Goto("restart_wait")
    /\ HttpSend("restart", svc)
    /\ NoExcept
    /\ UNCHANGED <<config, validation, validations, session, task_id, svc,
                   clock, remoteTask, uploads, pollSleeps, material>>

\* Variant of RestartOutcome: the loop over the services ends after the first
RestartOutcomeFirstOnly(r) ==
    IF r \in Raised \cup HttpError
    THEN /\ ExceptHandler("restart")
         /\ exc' = IF r \in HttpError THEN RestartFailedError(svc, r)
                                     ELSE transport_error(r)
         /\ svc' = svc
    ELSE /\ NoExcept
         /\ svc' = svc + 1
         /\ Goto("verify")

\* Variant of RestartOutcome: a failed restart is logged and the loop goes on
RestartOutcomeContinue(r) ==
    IF r \in Raised
    THEN /\ ExceptHandler("restart")
         /\ exc' = transport_error(r)
         /\ svc' = svc
    ELSE /\ NoExcept
         /\ svc' = svc + 1
         /\ IF svc + 1 > config.services_to_restart
            THEN Goto("verify")
            ELSE Goto("restart")

RestartOutcome(r) ==
    IF r \in Raised \cup HttpError
    THEN /\ ExceptHandler("restart")
         /\ exc' = IF r \in HttpError THEN RestartFailedError(svc, r)
                                     ELSE transport_error(r)
         /\ svc' = svc
    ELSE /\ NoExcept
         /\ svc' = svc + 1
         /\ IF svc + 1 > config.services_to_restart
            THEN Goto("verify")
            ELSE Goto("restart")

RestartRecv ==
    /\ pc = "restart_wait"
    /\ \E r \in RestartResponses : HttpReturn(r) /\ RestartOutcome(r)
    /\ UNCHANGED <<config, validation, validations, session, task_id, clock,
                   remoteTask, uploads, pollSleeps, material>>

\* session.get(url, timeout=15) of _verify_remote_certificate
VerifySend ==
    /\ pc = "verify"
    /\ Goto("verify_wait")
    /\ HttpSend("verify", 0)
    /\ NoExcept
    /\ UNCHANGED <<config, validation, validations, session, task_id, svc,
                   clock, remoteTask, uploads, pollSleeps, material>>

\* _verify_remote_certificate returns on status_code >= 400 and after logging
\* the remote state; main() then returns 0.  What session.get or
\* response.json() raises reaches the except block of main().
VerifyOutcome(r) ==
    IF r \in Raised \cup BadBody
    THEN ExceptHandler("verify") /\ exc' = transport_error(r)
    ELSE NoExcept /\ Return(0)

VerifyRecv ==
    /\ pc = "verify_wait"
    /\ \E r \in VerifyResponses : HttpReturn(r) /\ VerifyOutcome(r)
    /\ UNCHANGED <<config, validation, validations, session, task_id, svc,
                   clock, remoteTask, uploads, pollSleeps, material>>

Next ==
    \/ LoadConfig
    \/ Validate
    \/ DryRunCheck
    \/ LoopHead
    \/ UploadSend
    \/ UploadRecv
    \/ PollLoop
    \/ StatusRecv
    \/ RestartSend
    \/ RestartRecv
    \/ VerifySend
    \/ VerifyRecv

Spec == Init /\ [][Next]_vars

(***************************************************************************)
(* Runs of main() in which the process keeps running and every HTTP call   *)
(* comes back (timeout=15, timeout=30) after at least one clock tick.      *)
(***************************************************************************)
StatusRecvLive ==
    /\ pc = "status_wait"
    /\ \E r \in StatusResponses, latency \in 1..MaxLatency :
          HttpReturn(r) /\ StatusOutcome(r, latency)
    /\ UNCHANGED <<config, validation, validations, session, task_id, uploads,
                   material>>

NextLive ==
    \/ LoadConfig
    \/ Validate
    \/ DryRunCheck
    \/ LoopHead
    \/ UploadSend
    \/ UploadRecv
    \/ PollLoop
    \/ StatusRecvLive
    \/ RestartSend
    \/ RestartRecv
    \/ VerifySend
    \/ VerifyRecv

LiveSpec == Init /\ [][NextLive]_vars /\ WF_vars(NextLive)

(***************************************************************************)
(* The Certificate Validator on its own: _validate_certificate_pair        *)
(* applied once to inputs from a wider set than a run of main() draws.     *)
(***************************************************************************)
HostAUpper == <<"A", ".", "E">>

ValidatorCerts ==
    [pem_ok : BOOLEAN, family : KeyFamilies, numbers : {1},
     not_valid_after : 0..(2 * TicksPerDay + 1),
     san : {<<>>, <<Wildcard>>}, cn : {<<>>, <<HostApex>>}]

ValidatorKeys == [pem_ok : BOOLEAN, family : KeyFamilies, numbers : {1, 2}]

ValidatorHosts ==
    {<<>>, <<HostA>>, <<HostApex>>, <<HostAB>>, <<HostAUpper>>, <<HostA, HostApex>>}

ValidatorMinDays == 0..2

ValidatorInputs ==
    [cert : ValidatorCerts, key : ValidatorKeys, hosts : ValidatorHosts,
     min_days : ValidatorMinDays, now : NowChoices]

InitValidator ==
    /\ pc = "v_input"
    /\ material \in ValidatorInputs
    /\ exit_code = -1
    /\ config \in {c \in Configs : /\ ~c.dry_run /\ c.poll_task
                                  /\ c.max_retries = 0
                                  /\ c.retry_delay_seconds = 0
                                  /\ c.services_to_restart = 1
                                  /\ c.poll_interval_seconds = 0
                                  /\ c.poll_timeout_seconds = 0
                                  /\ c.expected_hostnames = <<>>}
    /\ validation = "pending"
    /\ validations = 0
    /\ session = "none"
    /\ attempt = 0
    /\ task_id = "None"
    /\ svc = 0
    /\ clock = 0
    /\ inflight = 0
    /\ remoteTask = "none"
    /\ uploads = 0
    /\ trace = <<>>
    /\ pollSleeps = <<>>
    /\ sleeps = <<>>
    /\ lastError = "none"
    /\ exc = NoException

\* one call of _validate_certificate_pair
ValidatePair ==
    /\ pc = "v_input"
    /\ validation' = validate_certificate_pair(material.cert, material.key,
                                               material.hosts, material.min_days,
                                               material.now)
    /\ validations' = validations + 1
    /\ pc' = "v_done"
    /\ UNCHANGED <<exit_code, config, session, attempt, task_id, svc, clock,
                   inflight, remoteTask, uploads, trace, pollSleeps, sleeps,
                   lastError, exc, material>>

NextValidator == ValidatePair

ValidatorSpec == InitValidator /\ [][NextValidator]_vars

(***************************************************************************)
(* Properties.                                                             *)
(***************************************************************************)
Terminated == pc = "done"

Waiting == {"upload_wait", "status_wait", "restart_wait", "verify_wait"}

InAttempt == pc \in Waiting \cup {"poll", "restart", "verify"}

NetworkUsed == uploads > 0 \/ trace # <<>> \/ inflight > 0

RestartReqs(tr) == SelectSeq(tr, LAMBDA e : e.req = "restart")

UploadAccepted(tr) ==
    tr # <<>> /\ tr[1].req = "upload" /\ tr[1].resp \in {"task", "empty", "null"}

TaskConfirmed(tr) ==
    \E i \in 1..Len(tr) : tr[i].req = "status" /\ tr[i].resp = "stopped_ok"

AllRestarted(tr) ==
    \A s \in 1..config.services_to_restart :
        \E i \in 1..Len(tr) : tr[i] = [req |-> "restart", svc |-> s, resp |-> "ok"]

\* C1: no HTTP request is issued before the certificate pair passed every
\* validator check; a run that ends with exit code 2, 3 or 4 issued none.
C1_NoRequestBeforeValidated ==
    /\ NetworkUsed => validation = "ok"
    /\ exit_code \in {2, 3, 4} => ~NetworkUsed

C1_Witness == pc = "upload_wait" /\ inflight = 1 /\ validation = "ok"

\* C2: exit code 0 the first time the sequence completes without raising (the
\* completing attempt is the last one made); exit code 1 only after exactly
\* max_retries + 1 attempts all failed; never more than max_retries + 1 uploads.
C2_AttemptsBounded ==
    /\ uploads <= config.max_retries + 1
    /\ (Terminated /\ exit_code = 1) =>
          (uploads = config.max_retries + 1 /\ attempt = uploads)
    /\ (Terminated /\ exit_code = 0 /\ ~config.dry_run) => uploads = attempt + 1
    /\ (trace # <<>> /\ trace[Len(trace)].req = "verify"
            /\ trace[Len(trace)].resp \in {"ok", "http_error"}) =>
          (Terminated /\ exit_code = 0)

C2_Witness ==
    /\ Terminated /\ exit_code = 1
    /\ config.max_retries >= 1 /\ uploads = config.max_retries + 1

\* C3: a failure of the verify step never fails the attempt: once the verify
\* request is out, the run ends with exit code 0 and uploads nothing more.
C3_VerifyNeverFatal ==
    [][pc = "verify_wait" => (pc' = "done" /\ exit_code' = 0 /\ uploads' = uploads)]_vars

\* C4 (as claimed): exit code 0 of a non-dry run means that in the final
\* attempt the upload was accepted, its task (when the response carried a task
\* id) was confirmed stopped/OK, and every configured service was restarted.
C4_SuccessMeansApplied ==
    (Terminated /\ exit_code = 0 /\ ~config.dry_run) =>
        /\ UploadAccepted(trace)
        /\ (trace[1].resp = "task" => TaskConfirmed(trace))
        /\ AllRestarted(trace)

\* C4 (amended): as above, the task being confirmed stopped/OK when polling
\* is enabled (poll_task) and the response carried a non-empty task id; any
\* other terminated run is a dry run or has a non-zero exit code.
C4_SuccessMeansAppliedWhenPolling ==
    /\ (Terminated /\ exit_code = 0 /\ ~config.dry_run) =>
          /\ UploadAccepted(trace)
          /\ ((config.poll_task /\ trace[1].resp = "task") => TaskConfirmed(trace))
          /\ AllRestarted(trace)
    /\ Terminated => exit_code \in 0..4

C4_Witness ==
    /\ Terminated /\ exit_code = 0 /\ ~config.dry_run
    /\ config.poll_task /\ trace[1].resp = "task" /\ TaskConfirmed(trace)
    /\ config.services_to_restart = 2 /\ AllRestarted(trace)

\* C5: with dry_run the run ends after validation with exit code 0, sends no
\* HTTP request and builds no session or attempt; validation is not bypassed.
C5_DryRunNoNetwork ==
    config.dry_run =>
        /\ ~NetworkUsed /\ session = "none" /\ attempt = 0 /\ ~InAttempt
        /\ Terminated =>
              /\ validation = "ok" => exit_code = 0
              /\ validation \in ValidationFailures => exit_code \in {3, 4}
              /\ exit_code = 0 => (validation = "ok" /\ validations = 1)

C5_Witness ==
    config.dry_run /\ Terminated /\ exit_code = 0 /\ validation = "ok"

\* C6: after failed attempt k (k <= max_retries) the handler sleeps
\* retry_delay_seconds * k, and it does not sleep after the final failure.
C6_LinearBackoff ==
    /\ \A k \in 1..Len(sleeps) : sleeps[k] = config.retry_delay_seconds * k
    /\ Len(sleeps) = IF attempt > config.max_retries THEN config.max_retries ELSE attempt
    /\ (InAttempt \/ (Terminated /\ uploads > 0)) => uploads = Len(sleeps) + 1

C6_Witness ==
    /\ Terminated /\ exit_code = 0
    /\ config.max_retries = 2 /\ uploads = 3 /\ lastError = "upload"
    /\ sleeps = <<DEFAULT_RETRY_DELAY, DEFAULT_RETRY_DELAY * 2>>

\* C7: the sequence is retried as one unit: every attempt starts with its own
\* upload and issues the restarts from the first service on, whichever stage
\* failed before; validation runs exactly once per run.
C7_RetryWholeSequence ==
    /\ validations <= 1
    /\ uploads > 0 => validations = 1
    /\ InAttempt => uploads = attempt + 1
    /\ trace # <<>> =>
          /\ trace[1].req = "upload"
          /\ \A i \in 2..Len(trace) : trace[i].req # "upload"
    /\ \A j \in 1..Len(RestartReqs(trace)) : RestartReqs(trace)[j].svc = j
    /\ (Terminated /\ exit_code = 0 /\ ~config.dry_run) =>
          Len(RestartReqs(trace)) = config.services_to_restart

C7_Witness ==
    /\ Terminated /\ exit_code = 0 /\ attempt >= 1 /\ lastError = "restart"
    /\ config.services_to_restart = 2 /\ Len(RestartReqs(trace)) = 2
    /\ validations = 1

\* C8 (as claimed): a new upload request is issued only when nothing of the
\* previous upload, its remote task included, is still in flight.
C8_NoUploadWhileTaskRuns ==
    [][uploads' = uploads + 1 => (inflight = 0 /\ remoteTask # "running")]_vars

\* C8 (amended): at most one HTTP request of the process is in flight at any
\* time, and an upload request is issued only when every request of the
\* previous attempts has returned or raised and those attempts have failed.
C8_OneRequestInFlight ==
    /\ inflight \in {0, 1}
    /\ inflight = 1 <=> pc \in Waiting
    /\ pc = "upload" =>
          /\ uploads = attempt
          /\ \A i \in 1..Len(trace) : trace[i].resp # "pending"

C8_Witness ==
    /\ pc = "upload_wait" /\ inflight = 1 /\ uploads = 2
    /\ remoteTask = "running" /\ lastError = "poll_timeout"

\* C9: every validation failure ends the run with exit code 3 and is never
\* retried; exit code 2 is a rejected configuration, 1 a sync that failed
\* after the retries, 0 a success or dry run.
C9_ValidationFailuresExit3 ==
    Terminated =>
        /\ validation \in {"MalformedInput", "KeyMismatch", "ExpiringSoon",
                           "HostnameNotCovered"} =>
              (exit_code = 3 /\ validations = 1 /\ ~NetworkUsed)
        /\ exit_code \in 0..4
        /\ exit_code = 2 <=> validation = "pending"
        /\ exit_code = 1 => attempt > config.max_retries
        /\ exit_code = 0 => validation = "ok"

\* C10: when the first stopped entry of the fetched statuses is at position n
\* with exit status OK, _poll_task returns after exactly n fetches and n - 1
\* sleeps of poll_interval_seconds, none after the last fetch.
C10_PollReturnsAtFirstStopped ==
    LET st == StatusSeen(trace)
    IN  /\ \A i \in 1..(Len(st) - 1) : st[i] \in {"running", "unknown"}
        /\ (st # <<>> /\ st[Len(st)] = "stopped_ok") =>
              /\ StatusFetches(trace) = Len(st)
              /\ pc \notin {"poll", "status_wait"}
              /\ pc = "restart" \/ RestartReqs(trace) # <<>>
              /\ Len(pollSleeps) = Len(st) - 1
              /\ \A k \in 1..Len(pollSleeps) :
                    pollSleeps[k] = config.poll_interval_seconds

C10_Witness ==
    /\ StatusSeen(trace) = <<"running", "running", "stopped_ok">>
    /\ pc = "restart"
    /\ config.poll_interval_seconds = 1
    /\ pollSleeps = <<1, 1>>

\* the step in which _poll_task raises its timeout
PollTimesOut == attempt' = attempt + 1 /\ lastError' = "poll_timeout"

\* the step in which _poll_task starts a status fetch
PollFetchStarts == pc = "poll" /\ pc' = "status_wait"

\* C11 (as claimed): _poll_task times out only once the deadline is reached,
\* at most one poll interval past it, and starts no fetch at or after it.
C11_TimedOutWithinOneInterval ==
    [][/\ PollFetchStarts => clock < config.poll_timeout_seconds
       /\ PollTimesOut =>
             /\ clock >= config.poll_timeout_seconds
             /\ clock - config.poll_timeout_seconds <= config.poll_interval_seconds]_vars

\* C11 (amended): as above, the overrun being less than one poll interval
\* plus the time the last status fetch took (at most MaxLatency); no stopped
\* status was received before the timeout.
C11_TimedOutWithinIntervalPlusFetch ==
    [][/\ PollFetchStarts => clock < config.poll_timeout_seconds
       /\ PollTimesOut =>
             /\ clock >= config.poll_timeout_seconds
             /\ clock - config.poll_timeout_seconds
                   < config.poll_interval_seconds + MaxLatency
             /\ \A i \in 1..Len(StatusSeen(trace)) :
                   StatusSeen(trace)[i] \in {"running", "unknown"}]_vars

C11_Witness ==
    /\ lastError = "poll_timeout" /\ exc = TimedOutError
    /\ StatusSeen(trace) = <<"running", "running">>
    /\ pollSleeps = <<1, 1>>

\* the trace is that of the attempt that failed last
JustFailed ==
    (pc \in {"loop", "upload"} /\ attempt > 0) \/ (Terminated /\ exit_code = 1)

LastStatus(tr) == StatusSeen(tr)[Len(StatusSeen(tr))]

\* C12: what _poll_task raises on an exceeded deadline differs from what it
\* raises on a task the node reported stopped with a non-OK exit status, which
\* carries that exit status; it returns normally only on stopped with OK.
C12_TimedOutDistinctFromFailure ==
    /\ lastError = "poll_timeout" =>
          /\ exc = TimedOutError
          /\ JustFailed => \A i \in 1..Len(StatusSeen(trace)) :
                              StatusSeen(trace)[i] \in {"running", "unknown"}
    /\ lastError = "task_failed" =>
          /\ exc # TimedOutError
          /\ exc.msg # TimedOutError.msg
          /\ JustFailed =>
                /\ StatusSeen(trace) # <<>>
                /\ LastStatus(trace) = "stopped_fail"
                /\ exc = TaskFailedError(exitstatus(LastStatus(trace)))
                /\ exitstatus(LastStatus(trace)) # "OK"
    /\ (StatusFetches(trace) > 0 /\ (pc = "restart" \/ RestartReqs(trace) # <<>>)) =>
          (StatusSeen(trace) # <<>> /\ LastStatus(trace) = "stopped_ok")

C12_Witness ==
    /\ JustFailed /\ attempt = 2 /\ lastError = "task_failed"
    /\ exc = TaskFailedError("ERROR")
    /\ sleeps # <<>>

StageRank(kind) ==
    CASE kind = "upload" -> 1 [] kind = "status" -> 2
      [] kind = "restart" -> 3 [] kind = "verify" -> 4

StagesInOrder(tr) ==
    \A i, j \in 1..Len(tr) : i < j => StageRank(tr[i].req) <= StageRank(tr[j].req)

VerifyRequested(tr) == \E i \in 1..Len(tr) : tr[i].req = "verify"

\* C13 (as claimed): the requests of an attempt come in the order upload,
\* poll, restarts, verify; a restart request is issued only after the upload
\* succeeded and, when a task id was returned, the poll saw stopped/OK; the
\* verify request is issued only after every configured restart succeeded.
C13_StagesInOrder ==
    /\ StagesInOrder(trace)
    /\ RestartReqs(trace) # <<>> =>
          /\ UploadAccepted(trace)
          /\ trace[1].resp = "task" => TaskConfirmed(trace)
    /\ VerifyRequested(trace) => AllRestarted(trace)

\* C13 (amended): as above, but the poll is part of the sequence only when
\* task polling is enabled (poll_task) and the returned task id is non-empty.
C13_StagesInOrderWhenPolling ==
    /\ StagesInOrder(trace)
    /\ RestartReqs(trace) # <<>> =>
          /\ UploadAccepted(trace)
          /\ (trace[1].resp = "task" /\ config.poll_task) => TaskConfirmed(trace)
          /\ (trace[1].resp # "task" \/ ~config.poll_task) => StatusFetches(trace) = 0
    /\ VerifyRequested(trace) => AllRestarted(trace)

C13_Witness ==
    /\ VerifyRequested(trace) /\ config.poll_task /\ config.services_to_restart = 2
    /\ StatusSeen(trace) = <<"running", "stopped_ok">>
    /\ Len(trace) = 6

\* C14: the restart requests of an attempt go to the configured services in
\* configured order, one each; a restart answered with a non-success HTTP
\* status is the last request of its attempt, and the error raised names that
\* service and that HTTP status.
C14_FirstFailingRestartAborts ==
    /\ Len(RestartReqs(trace)) <= config.services_to_restart
    /\ \A i \in 1..Len(RestartReqs(trace)) : RestartReqs(trace)[i].svc = i
    /\ \A i \in 1..Len(trace) :
          (trace[i].req = "restart" /\ trace[i].resp \in HttpError) =>
             /\ i = Len(trace)
             /\ lastError = "restart"
             /\ JustFailed
             /\ exc.type = "RuntimeError"
             /\ exc.msg = <<"Failed to restart service ", ToString(trace[i].svc),
                            ": HTTP ", ToString(status_code(trace[i].resp))>>

C14_Witness ==
    /\ config.services_to_restart = 2
    /\ RestartReqs(trace) = <<[req |-> "restart", svc |-> 1, resp |-> "http_error"]>>
    /\ exc = RestartFailedError(1, "http_error")
    /\ Terminated

\* C15: an upload answered with a non-success HTTP status fails the attempt,
\* and no other request follows in it; after a successful upload response
\* without a task id (data null or not a string) no task status is fetched
\* and the next request of the attempt is the first service restart.
C15_UploadFailureAndAbsentTask ==
    /\ (trace # <<>> /\ trace[1].resp \in HttpError) =>
          /\ Len(trace) = 1
          /\ JustFailed
          /\ lastError = "upload"
          /\ exc = UploadFailedError(trace[1].resp)
    /\ (trace # <<>> /\ trace[1].resp = "null") =>
          /\ task_id = "None"
          /\ StatusFetches(trace) = 0
          /\ pc # "poll"
          /\ Len(trace) = 1 => pc = "restart"
          /\ Len(trace) >= 2 => (trace[2].req = "restart" /\ trace[2].svc = 1)

C15_Witness ==
    /\ config.poll_task
    /\ Len(trace) >= 2 /\ trace[1].resp = "null"
    /\ trace[2] = [req |-> "restart", svc |-> 1, resp |-> "ok"]
    /\ attempt = 1 /\ lastError = "upload"
    /\ exc = UploadFailedError("http_error")

Validated == pc = "v_done"

\* wildcard-certificate matching: "*" as the whole leftmost label stands for
\* exactly one label
IsLabel(s) == s # <<>> /\ \A i \in 1..Len(s) : s[i] # "."

WildcardCovers(host, name) ==
    IF Len(name) >= 2 /\ name[1] = "*" /\ name[2] = "."
    THEN \E k \in 1..Len(host) :
            /\ IsLabel(SubSeq(host, 1, k))
            /\ SubSeq(host, k + 1, Len(host)) = Tail(name)
    ELSE host = name

CoveredAsWildcard(certificate, expected_hosts) ==
    LET names == certificate.san \o certificate.cn
    IN  \A h \in 1..Len(expected_hosts) :
            \E n \in 1..Len(names) :
                WildcardCovers(Lower(expected_hosts[h]), Lower(names[n]))

\* C16: among the inputs that pass the earlier checks, validation raises
\* HostnameNotCovered exactly when some expected hostname, compared without
\* regard to case, is matched by no SAN DNS name or Common Name under
\* wildcard-certificate semantics ("*.e" covers "a.e", not "e", not "a.b.e");
\* with no expected hostnames the check is skipped.
C16_WildcardSemantics ==
    (Validated /\ validation \in {"ok", "HostnameNotCovered"}) =>
        (validation = "ok" <=> CoveredAsWildcard(material.cert, material.hosts))

\* C17: among the inputs that parse, validation raises KeyMismatch exactly
\* when the certificate's and the key's algorithm families or public
\* parameters differ; a matching pair passes the key-match check.
C17_KeyMatchForAllPairs ==
    (Validated /\ validation # "MalformedInput") =>
        (validation = "KeyMismatch" <=>
            ~(/\ material.cert.family = material.key.family
              /\ material.cert.numbers = material.key.numbers))

\* C18: among the inputs that parse and whose keys match, validation raises
\* ExpiringSoon exactly when not-after minus now is strictly less than
\* min_validity_days; not-after = now + min_validity_days - 1 day fails and
\* not-after = now + min_validity_days passes.
C18_ExpiryBoundary ==
    (Validated /\ validation \notin {"MalformedInput", "KeyMismatch"}) =>
        LET not_after == material.cert.not_valid_after
            threshold == material.now + material.min_days * TicksPerDay
        IN  /\ validation = "ExpiringSoon" <=> not_after < threshold
            /\ not_after = threshold - TicksPerDay => validation = "ExpiringSoon"
            /\ not_after = threshold - 1 => validation = "ExpiringSoon"
            /\ not_after = threshold => validation # "ExpiringSoon"

C18_Witness ==
    /\ Validated /\ validation = "ok"
    /\ material.min_days = 1 /\ material.now = 1
    /\ material.cert.not_valid_after = 1 + TicksPerDay
    /\ material.hosts = <<HostA>>

StatusAnswered == pc = "status_wait" /\ pc' # "status_wait"

\* C20: a task status response that is neither stopped nor an HTTP error
\* fails nothing: the poll sleeps one interval and is back at the head of its
\* loop, where before the deadline the one step it can take is the next
\* fetch; a status fetch answered with a non-success HTTP status fails the
\* attempt in that same step, without a sleep and whatever the deadline.
C20_NonTerminalStatusRefetched ==
    [][/\ StatusAnswered =>
            LET r == trace'[Len(trace')].resp
            IN  /\ r \in {"running", "unknown"} =>
                      /\ pc' = "poll"
                      /\ pollSleeps' = Append(pollSleeps, config.poll_interval_seconds)
                      /\ clock' >= clock + config.poll_interval_seconds
                      /\ attempt' = attempt /\ lastError' = lastError /\ exc' = exc
                /\ r \in HttpError =>
                      /\ attempt' = attempt + 1
                      /\ lastError' = "poll"
                      /\ exc' = StatusFetchError(r)
                      /\ pollSleeps' = pollSleeps
                      /\ pc' \in {"loop", "done"}
       /\ (pc = "poll" /\ clock < config.poll_timeout_seconds) =>
            /\ pc' = "status_wait"
            /\ trace' = Append(trace, Req("status", 0))]_vars

C20_Witness ==
    /\ StatusSeen(trace) = <<"unknown", "running", "http_error">>
    /\ pollSleeps = <<1, 1>>
    /\ lastError = "poll" /\ exc = StatusFetchError("http_error")
    /\ clock = 0 /\ config.poll_timeout_seconds = MaxFetches

\* C19: every run ends: it reaches the end of main() with one of the exit
\* codes 0..4, having made at most max_retries + 1 attempts, whatever the
\* poll interval, poll timeout, retry count and retry delay (zero included),
\* provided every HTTP call returns or raises.
C19_EveryRunTerminates ==
    <>(/\ Terminated
       /\ exit_code \in 0..4
       /\ uploads <= config.max_retries + 1
       /\ inflight = 0)

C19_Witness ==
    /\ Terminated /\ exit_code = 1
    /\ config.poll_interval_seconds = 0 /\ config.retry_delay_seconds = 0
    /\ config.poll_timeout_seconds = MaxFetches /\ config.max_retries = 1
    /\ lastError = "poll_timeout"
    /\ StatusSeen(trace) = <<"running", "unknown", "running">>

====
